---------------------------- MODULE Spec2Model ----------------------------
(***************************************************************************)
(* claude2pdf (src/src/main.rs): a JSONL conversation log is extracted to  *)
(* a markdown document, fenced code regions are highlighted, the display   *)
(* markup is written to <output-stem>.html and Chrome prints it to PDF.    *)
(*                                                                         *)
(* Strings that reach the output (role, text, the document) are sequences  *)
(* of one-character strings; strings that are only compared (the record's  *)
(* "type", a block's "type") are TLA+ strings.                             *)
(***************************************************************************)
EXTENDS Naturals, Sequences, FiniteSets

VARIABLES
    lines,        \* extract_conversation_markdown: the lines of the input file
    pos,          \* number of lines taken from reader.lines() so far
    output,       \* `let mut output = String::new()`
    extracted,    \* what extract_conversation_markdown returned, if it has
    md,           \* render_markdown_with_highlighting: its argument
    engineFails,  \* the matches on which highlighted_html_for_string errs
    rendered,     \* what render_markdown_with_highlighting returned, if it has
    cli,          \* main: the parsed command line
    fs,           \* the files on disk, by path
    pc,           \* main: the statement reached
    markdown,     \* main: `let markdown`
    html_content, \* main: `let html_content`
    ran           \* main: the stages executed so far, with their outcome

vars == <<lines, pos, output, extracted, md, engineFails, rendered,
          cli, fs, pc, markdown, html_content, ran>>

extractVars == <<lines, pos, output, extracted>>
renderVars == <<md, engineFails, rendered>>
mainVars == <<cli, fs, pc, markdown, html_content, ran>>

(***************************************************************************)
(* Bounds of the model.                                                    *)
(***************************************************************************)
MaxLines == 3
MaxBlocks == 3
MaxPieces == 6

\* All sequences over S of length at most n.
SeqsUpTo(S, n) == UNION {[1..k -> S] : k \in 0..n}

(***************************************************************************)
(* JSON values, as far as serde looks at them.  A value is a record with a *)
(* tag t: "absent" (the key is missing), "null", "num" (any value of a     *)
(* type the target does not accept), "str", "arr", "obj".                  *)
(***************************************************************************)
JAbsent == [t |-> "absent"]
JNull == [t |-> "null"]
JNum == [t |-> "num"]
JStr(s) == [t |-> "str", v |-> s]
JArr(a) == [t |-> "arr", v |-> a]
JBlock(ty, tx) == [t |-> "obj", type |-> ty, text |-> tx]
JMessage(r, c) == [t |-> "obj", role |-> r, content |-> c]
\* A line of the file: bytes that are not UTF-8, text that is not JSON at all
\* (the empty line, garbage), or an object.
InvalidUtf8Line == [t |-> "invalid_utf8"]
EmptyLine == [t |-> "empty"]
GarbageLine == [t |-> "garbage"]
JRoot(ty, m) == [t |-> "obj", type |-> ty, message |-> m]

Err == [ok |-> FALSE]
Ok(v) == [ok |-> TRUE, v |-> v]
None == [some |-> FALSE]
Some(v) == [some |-> TRUE, v |-> v]

\* Option<String>: a missing key and null are None, a string is Some, else error.
DeOptionString(j) ==
    CASE j.t \in {"absent", "null"} -> Ok(None)
      [] j.t = "str" -> Ok(Some(j.v))
      [] OTHER -> Err

\* String: required.
DeString(j) == IF j.t = "str" THEN Ok(j.v) ELSE Err

\* struct ContentBlock { block_type: String, text: Option<String> }
DeContentBlock(j) ==
    IF j.t # "obj" THEN Err
    ELSE LET ty == DeString(j.type)
             tx == DeOptionString(j.text)
         IN IF ty.ok /\ tx.ok
            THEN Ok([block_type |-> ty.v, text |-> tx.v])
            ELSE Err

\* enum Content (untagged): String(String), else Blocks(Vec<ContentBlock>).
DeContent(j) ==
    CASE j.t = "str" -> Ok([variant |-> "String", text |-> j.v])
      [] j.t = "arr" ->
           IF \A i \in 1..Len(j.v) : DeContentBlock(j.v[i]).ok
           THEN Ok([variant |-> "Blocks",
                    blocks |-> [i \in 1..Len(j.v) |-> DeContentBlock(j.v[i]).v]])
           ELSE Err
      [] OTHER -> Err

\* struct Message { role: String, content: Content }
DeMessage(j) ==
    IF j.t # "obj" THEN Err
    ELSE LET r == DeString(j.role)
             c == DeContent(j.content)
         IN IF r.ok /\ c.ok THEN Ok([role |-> r.v, content |-> c.v]) ELSE Err

\* Option<Message>
DeOptionMessage(j) ==
    IF j.t \in {"absent", "null"} THEN Ok(None)
    ELSE LET m == DeMessage(j)
         IN IF m.ok THEN Ok(Some(m.v)) ELSE Err

\* struct Root { record_type: Option<String>, message: Option<Message> },
\* as serde_json::from_str(&line) builds it.
DeRoot(line) ==
    IF line.t # "obj" THEN Err
    ELSE LET ty == DeOptionString(line.type)
             m == DeOptionMessage(line.message)
         IN IF ty.ok /\ m.ok
            THEN Ok([record_type |-> ty.v, message |-> m.v])
            ELSE Err

(***************************************************************************)
(* extract_conversation_markdown                                           *)
(***************************************************************************)
NL == "\n"

\* format!("## {}\n\n", message.role)
Heading(role) == <<"#", "#", " ">> \o role \o <<NL, NL>>

\* output.push_str(&text); output.push_str("\n\n");
TextPiece(text) == text \o <<NL, NL>>

\* A kept record type, compared without regard to case.
KeepRecordIgnoreCase(record_type) ==
    /\ record_type.some
    /\ record_type.v \in {"assistant", "user", "Assistant", "User"}

\* The negation of the `continue` condition on record_type.
KeepRecord(record_type) ==
    /\ record_type.some
    /\ record_type.v \in {"assistant", "user"}

\* A block pushes its text whenever it has one, whatever its type.
BlockPushesAnyType(block) == block.text.some

\* A block pushes its text: its type is "text" and the text is there.
BlockPushes(block) == block.block_type = "text" /\ block.text.some

\* `for block in blocks { ... }`: what the loop appends, in block order.
RECURSIVE BlocksPieces(_)
BlocksPieces(blocks) ==
    IF blocks = <<>> THEN <<>>
    ELSE (IF BlockPushes(Head(blocks)) THEN TextPiece(Head(blocks).text.v)
          ELSE <<>>) \o BlocksPieces(Tail(blocks))

\* The heading is pushed after the content instead of before it.
MessagePiecesHeadingLast(message) ==
    (IF message.content.variant = "String"
     THEN TextPiece(message.content.text)
     ELSE BlocksPieces(message.content.blocks)) \o Heading(message.role)

\* What one record with a message appends to output.
MessagePieces(message) ==
    Heading(message.role)
    \o (IF message.content.variant = "String"
        THEN TextPiece(message.content.text)
        ELSE BlocksPieces(message.content.blocks))

\* A line that does not parse is skipped.
ParseFailureSkips == [r |-> "continue"]

\* `serde_json::from_str(&line)?` on a line that does not parse.
ParseFailure == [r |-> "error", error |-> "ParseError"]

\* `let line = line?` on a line that cannot be read as UTF-8.
ReadFailure == [r |-> "error", error |-> "IoError"]

\* A record without a message is an error.
NoMessageFails == [r |-> "error", error |-> "ParseError"]

\* `None => continue`
NoMessage == [r |-> "continue"]

\* One iteration of `for line in reader.lines()`.
LineOutcome(line) ==
    LET parsed == DeRoot(line)
    IN IF line.t = "invalid_utf8" THEN ReadFailure
       ELSE IF ~parsed.ok THEN ParseFailure
       ELSE IF ~KeepRecord(parsed.v.record_type) THEN [r |-> "continue"]
       ELSE IF ~parsed.v.message.some THEN NoMessage
       ELSE [r |-> "push", text |-> MessagePieces(parsed.v.message.v)]

\* The whole function on the lines ls from line k on, with out accumulated.
RECURSIVE ExtractFrom(_, _, _)
ExtractFrom(ls, k, out) ==
    IF k > Len(ls) THEN [state |-> "ok", doc |-> out]
    ELSE LET o == LineOutcome(ls[k])
         IN CASE o.r = "error" -> [state |-> "err", error |-> o.error]
              [] o.r = "continue" -> ExtractFrom(ls, k + 1, out)
              [] OTHER -> ExtractFrom(ls, k + 1, out \o o.text)

ExtractFn(ls) == ExtractFrom(ls, 1, <<>>)

Running == [state |-> "running"]

\* The iteration's line does not parse: the error is returned, output dropped.
LineFails ==
    /\ extracted = Running
    /\ pos < Len(lines)
    /\ LineOutcome(lines[pos + 1]).r = "error"
    /\ pos' = pos + 1
    /\ output' = <<>>
    /\ extracted' = [state |-> "err", error |-> LineOutcome(lines[pos + 1]).error]
    /\ UNCHANGED <<lines, renderVars, mainVars>>

\* The iteration ends in a `continue`.
LineSkipped ==
    /\ extracted = Running
    /\ pos < Len(lines)
    /\ LineOutcome(lines[pos + 1]).r = "continue"
    /\ pos' = pos + 1
    /\ UNCHANGED <<lines, output, extracted, renderVars, mainVars>>

\* The iteration pushes a heading and the record's text.
LinePushed ==
    /\ extracted = Running
    /\ pos < Len(lines)
    /\ LineOutcome(lines[pos + 1]).r = "push"
    /\ pos' = pos + 1
    /\ output' = output \o LineOutcome(lines[pos + 1]).text
    /\ UNCHANGED <<lines, extracted, renderVars, mainVars>>

\* `Ok(output)` after the last line.
ReturnOutput ==
    /\ extracted = Running
    /\ pos = Len(lines)
    /\ extracted' = [state |-> "ok", doc |-> output]
    /\ UNCHANGED <<lines, pos, output, renderVars, mainVars>>

(***************************************************************************)
(* The inputs of the extraction.                                           *)
(***************************************************************************)
user == <<"u", "s", "e", "r">>
bot == <<"b", "o", "t">>
Hello == <<"H", "i">>

TextBlockA == JBlock(JStr("text"), JStr(<<"a">>))
TextBlockB == JBlock(JStr("text"), JStr(<<"b">>))
ToolBlock == JBlock(JStr("tool_use"), JStr(<<"t">>))
TextlessBlock == JBlock(JStr("text"), JAbsent)
ThinkingBlock == JBlock(JStr("thinking"), JNull)

BlockSamples == {TextBlockA, TextBlockB, ToolBlock, TextlessBlock, ThinkingBlock}

StringMessage == JMessage(JStr(user), JStr(Hello))
BlocksMessage == JMessage(JStr(bot), JArr(<<TextBlockA, ToolBlock, TextlessBlock, TextBlockB>>))

LineSamples ==
    { InvalidUtf8Line,
      EmptyLine,
      GarbageLine,
      JRoot(JStr("summary"), JNull),
      JRoot(JAbsent, StringMessage),
      JRoot(JStr("Assistant"), StringMessage),
      JRoot(JStr("summary"), JMessage(JNum, JStr(Hello))),
      JRoot(JStr("user"), JAbsent),
      JRoot(JStr("assistant"), JNull),
      JRoot(JStr("user"), StringMessage),
      JRoot(JStr("assistant"), BlocksMessage),
      JRoot(JNum, JNull),
      JRoot(JStr("user"), JMessage(JStr(user), JNum)),
      JRoot(JStr("assistant"),
            JMessage(JStr(bot), JArr(<<JBlock(JAbsent, JStr(<<"a">>))>>))) }

IdleRender == /\ md = <<>>
              /\ engineFails = {}
              /\ rendered = [state |-> "idle"]

IdleMain == /\ cli = [input |-> "none"]
            /\ fs = <<>>
            /\ pc = "idle"
            /\ markdown = <<>>
            /\ html_content = <<>>
            /\ ran = <<>>

IdleExtract == /\ lines = <<>>
               /\ pos = 0
               /\ output = <<>>
               /\ extracted = [state |-> "idle"]

InitExtract ==
    /\ lines \in SeqsUpTo(LineSamples, MaxLines)
    /\ pos = 0
    /\ output = <<>>
    /\ extracted = Running
    /\ IdleRender
    /\ IdleMain

NextExtract == LineFails \/ LineSkipped \/ LinePushed \/ ReturnOutput

SpecExtract == InitExtract /\ [][NextExtract]_vars

\* One "assistant" record whose content is a sequence of blocks, after a
\* "user" record with a plain string.
InitBlocks ==
    /\ \E bs \in SeqsUpTo(BlockSamples, MaxBlocks) :
          lines = << JRoot(JStr("user"), StringMessage),
                     JRoot(JStr("assistant"), JMessage(JStr(bot), JArr(bs))) >>
    /\ pos = 0
    /\ output = <<>>
    /\ extracted = Running
    /\ IdleRender
    /\ IdleMain

NextBlocks == LinePushed \/ ReturnOutput

SpecBlocks == InitBlocks /\ [][NextBlocks]_vars

(***************************************************************************)
(* Properties of the extraction.                                           *)
(***************************************************************************)
RemoveAt(s, k) == SubSeq(s, 1, k - 1) \o SubSeq(s, k + 1, Len(s))

RECURSIVE Concat(_)
Concat(ss) == IF ss = <<>> THEN <<>> ELSE Head(ss) \o Concat(Tail(ss))

IsPrefix(s, t) == Len(s) <= Len(t) /\ SubSeq(t, 1, Len(s)) = s

Parses(line) == DeRoot(line).ok

AllParse(ls) == \A k \in 1..Len(ls) : Parses(ls[k])

\* The first line that does not parse as a Line Record, 0 if every line does.
FirstBad(ls) ==
    IF AllParse(ls) THEN 0
    ELSE CHOOSE k \in 1..Len(ls) :
            ~Parses(ls[k]) /\ \A j \in 1..(k - 1) : Parses(ls[j])

\* The JSON "type" of a line is exactly "assistant" or "user".
KindKept(line) ==
    /\ line.t = "obj"
    /\ line.type.t = "str"
    /\ line.type.v \in {"assistant", "user"}

\* The JSON "message" of a line is absent or null.
MessageMissing(line) == line.t = "obj" /\ line.message.t \in {"absent", "null"}

\* A JSON block that emits: its "type" is "text" and its "text" is a string.
BlockEmits(b) == b.type.t = "str" /\ b.type.v = "text" /\ b.text.t = "str"

\* piece(r): the heading with r's role, a blank line, then each emitted text
\* followed by a blank line.
Piece(line) ==
    LET m == line.message
        texts == IF m.content.t = "str" THEN <<m.content.v>>
                 ELSE LET em == SelectSeq(m.content.v, BlockEmits)
                      IN [i \in 1..Len(em) |-> em[i].text.v]
    IN <<"#", "#", " ">> \o m.role.v \o <<NL, NL>>
       \o Concat([i \in 1..Len(texts) |-> texts[i] \o <<NL, NL>>])

PiecesUpTo(ls, n) == Concat([i \in 1..n |-> Piece(ls[i])])

\* Every line is a well-formed record of kind "assistant" or "user" with a message.
AllSurvive(ls) ==
    \A k \in 1..Len(ls) : Parses(ls[k]) /\ KindKept(ls[k]) /\ ~MessageMissing(ls[k])

\* C1: when line k is the first line that does not parse as a Line Record
\* (an empty line, garbage, unreadable bytes, or a record of a kind that would
\* have been filtered out), the extraction returns an error (a parse error
\* when the line could be read) that carries no document,
\* the accumulated text is dropped, and no line after k is taken from the
\* reader; the extraction returns a document only when every line parses.
C1_MalformedLineAborts ==
    LET k == FirstBad(lines)
    IN /\ (k > 0 /\ pos >= k) =>
            /\ extracted.state = "err"
            /\ DOMAIN extracted = {"state", "error"}
            /\ extracted.error =
                  (IF lines[k].t = "invalid_utf8" THEN "IoError" ELSE "ParseError")
            /\ output = <<>>
            /\ pos = k
       /\ extracted.state = "err" => (k > 0 /\ pos = k)
       /\ extracted.state = "ok" => k = 0

\* The second of three lines is a "summary" record with a malformed message,
\* after a line that pushed text: the extraction has failed there.
C1_Witness ==
    /\ Len(lines) = 3
    /\ lines[1] = JRoot(JStr("user"), StringMessage)
    /\ lines[2] = JRoot(JStr("summary"), JMessage(JNum, JStr(Hello)))
    /\ extracted.state = "err"

\* C2: for an input whose lines all parse, the extraction succeeds and the
\* document equals the one extracted with every record whose kind is not
\* exactly "assistant" or "user" removed, and the one with any single such
\* record removed, wherever it sits.
C2_OtherKindsExcluded ==
    (AllParse(lines) /\ extracted.state # "running") =>
        /\ extracted.state = "ok"
        /\ pos = Len(lines)
        /\ extracted.doc = ExtractFn(SelectSeq(lines, KindKept)).doc
        /\ \A k \in 1..Len(lines) :
              ~KindKept(lines[k]) => extracted.doc = ExtractFn(RemoveAt(lines, k)).doc

\* A record of kind "Assistant" that carries a message sits between two
\* kept records, and the document has been returned.
C2_Witness ==
    /\ Len(lines) = 3
    /\ KindKept(lines[1]) /\ ~MessageMissing(lines[1])
    /\ lines[2] = JRoot(JStr("Assistant"), StringMessage)
    /\ KindKept(lines[3]) /\ ~MessageMissing(lines[3])
    /\ extracted.state = "ok"

\* C4: when every line is a well-formed "assistant" or "user" record with a
\* message, the extraction does not fail, after each line the output is the
\* output before it followed by that line's piece (heading with the role
\* verbatim, blank line, each emitted text and a blank line), each piece is
\* not empty so the earlier output is a strict prefix of the later, and the
\* returned document is the pieces of all lines in line order.
C4_AppendsPiecesInOrder ==
    AllSurvive(lines) =>
        /\ extracted.state # "err"
        /\ output = PiecesUpTo(lines, pos)
        /\ \A k \in 1..pos :
              /\ PiecesUpTo(lines, k) = PiecesUpTo(lines, k - 1) \o Piece(lines[k])
              /\ IsPrefix(PiecesUpTo(lines, k - 1), output)
              /\ Len(PiecesUpTo(lines, k - 1)) < Len(PiecesUpTo(lines, k))
        /\ extracted.state = "ok" =>
              /\ pos = Len(lines)
              /\ extracted.doc = PiecesUpTo(lines, Len(lines))

\* Three surviving records, one with a block sequence, have been extracted.
C4_Witness ==
    /\ Len(lines) = 3
    /\ AllSurvive(lines)
    /\ lines[2] = JRoot(JStr("assistant"), BlocksMessage)
    /\ lines[3] = JRoot(JStr("user"), StringMessage)
    /\ extracted.state = "ok"

\* C10: a record of kind "assistant" or "user" without a message (absent or
\* null) raises no error, the lines after it are still processed, and the
\* document equals the one extracted with that record removed.
C10_NoMessageDropped ==
    \A k \in 1..Len(lines) :
        (KindKept(lines[k]) /\ MessageMissing(lines[k]) /\ AllParse(lines)) =>
            /\ extracted.state # "err"
            /\ extracted.state = "ok" =>
                  /\ pos = Len(lines)
                  /\ extracted.doc = ExtractFn(RemoveAt(lines, k)).doc

\* A "user" record with no message key sits between two records that push
\* text, and the document has been returned.
C10_Witness ==
    /\ Len(lines) = 3
    /\ lines[1] = JRoot(JStr("assistant"), BlocksMessage)
    /\ lines[2] = JRoot(JStr("user"), JAbsent)
    /\ lines[3] = JRoot(JStr("user"), StringMessage)
    /\ extracted.state = "ok"

\* The blocks of the second line of the block-sequence inputs.
BlocksOf(ls) == ls[2].message.content.v

WithBlocks(ls, bs) ==
    <<ls[1], JRoot(ls[2].type, JMessage(ls[2].message.role, JArr(bs)))>>

\* C3: in a surviving record whose content is a block sequence, a block whose
\* type is not "text" or whose text is absent raises no error and contributes
\* nothing: the document equals the one extracted with that block removed,
\* at every position, and the texts of the remaining text blocks follow the
\* heading in their original order.
C3_NonTextBlocksSkipped ==
    /\ extracted.state # "err"
    /\ extracted.state = "ok" =>
          /\ \A i \in 1..Len(BlocksOf(lines)) :
                ~BlockEmits(BlocksOf(lines)[i]) =>
                    extracted.doc =
                        ExtractFn(WithBlocks(lines, RemoveAt(BlocksOf(lines), i))).doc
          /\ extracted.doc = PiecesUpTo(lines, 2)

\* A tool_use block that carries a text sits between two text blocks.
C3_Witness ==
    /\ Len(lines) = 2
    /\ BlocksOf(lines) = <<TextBlockA, ToolBlock, TextBlockB>>
    /\ extracted.state = "ok"

(***************************************************************************)
(* render_markdown_with_highlighting                                       *)
(*                                                                         *)
(* The document is a sequence of characters.  The result of the            *)
(* substitution is a sequence of items: the characters copied from the     *)
(* document and, for each match, the markup the closure returned.          *)
(***************************************************************************)
\* The backtick, written as a quote: a string of the module cannot hold one.
BT == "'"
Fence == <<BT, BT, BT>>

\* \w, among the characters of the model.
WordChars == {"a", "b", "o", "t", "u", "s", "e", "r", "H", "i", "x"}

\* Every character of the model.
Chars == WordChars \cup {BT, NL, "+", "#", " "}

IsFenceAt(s, i) ==
    /\ i >= 1
    /\ i + 2 <= Len(s)
    /\ s[i] = BT /\ s[i + 1] = BT /\ s[i + 2] = BT

\* The end of the greedy run of tag characters from j: the first index at or
\* after j that holds no tag character.
RECURSIVE RunEnd(_, _, _)
RunEnd(s, j, tagChars) ==
    IF j <= Len(s) /\ s[j] \in tagChars THEN RunEnd(s, j + 1, tagChars) ELSE j

\* The last fence at or after k, 0 if there is none: `(.*)` in place of `(.*?)`.
RECURSIVE LastFence(_, _)
LastFence(s, k) ==
    IF k + 2 > Len(s) THEN 0
    ELSE LET later == LastFence(s, k + 1)
         IN IF later > 0 THEN later
            ELSE IF IsFenceAt(s, k) THEN k ELSE 0

\* `(.*?)```` with (?s): the first fence at or after k, 0 if there is none.
RECURSIVE ClosingFence(_, _)
ClosingFence(s, k) ==
    IF k + 2 > Len(s) THEN 0
    ELSE IF IsFenceAt(s, k) THEN k ELSE ClosingFence(s, k + 1)

NoMatch == [found |-> FALSE]

\* The pattern ```(T+)?\n(.*?)``` anchored at i, T the tag characters: the
\* fence, the greedy optional tag, the newline, the lazy content, the fence.
MatchAtWith(s, i, tagChars) ==
    IF ~IsFenceAt(s, i) THEN NoMatch
    ELSE LET j == RunEnd(s, i + 3, tagChars)
         IN IF ~(j <= Len(s) /\ s[j] = NL) THEN NoMatch
            ELSE LET e == ClosingFence(s, j + 1)
                 IN IF e = 0 THEN NoMatch
                    ELSE [found |-> TRUE,
                          start |-> i,
                          tag |-> IF j > i + 3 THEN Some(SubSeq(s, i + 3, j - 1))
                                  ELSE None,
                          codeFrom |-> j + 1,
                          code |-> SubSeq(s, j + 1, e - 1),
                          end |-> e + 2]

\* The successive non-overlapping leftmost matches from index `from` on.
RECURSIVE FindIterWith(_, _, _)
FindIterWith(s, from, tagChars) ==
    IF from > Len(s) THEN <<>>
    ELSE LET m == MatchAtWith(s, from, tagChars)
         IN IF m.found THEN <<m>> \o FindIterWith(s, m.end + 1, tagChars)
            ELSE FindIterWith(s, from + 1, tagChars)

\* The matches of code_block_re, r"(?s)```(\w+)?\n(.*?)```", in s.
CodeBlockMatches(s) == FindIterWith(s, 1, WordChars)

txt == <<"t", "x", "t">>
PlainText == "Plain Text"

\* ps.find_syntax_by_token(lang): the syntax set knows "txt" (Plain Text) and
\* the language "a"; any other token is unknown.
FindSyntaxByToken(lang) ==
    CASE lang = txt -> Some(PlainText)
      [] lang = <<"a">> -> Some("A")
      [] OTHER -> None

\* caps.get(1)...unwrap_or("txt"), then find_syntax_by_token or plain text.
SyntaxFor(tag) ==
    LET lang == IF tag.some THEN tag.v ELSE txt
        found == FindSyntaxByToken(lang)
    IN IF found.some THEN found.v ELSE PlainText

Ch(c) == [k |-> "ch", c |-> c, syntax |-> "", code |-> <<>>]
Chs(s) == [i \in 1..Len(s) |-> Ch(s[i])]

\* The engine's error is kept in place of the markup.
FallbackDropped(code) == [k |-> "error", c |-> "", syntax |-> "", code |-> <<>>]

\* format!("<pre><code>{}</code></pre>", code)
FallbackMarkup(code) == [k |-> "fallback", c |-> "", syntax |-> "", code |-> code]

\* The closure of replace_all on one match: the highlighted markup of the
\* code, or the fallback when the engine fails on it.
RegionMarkup(m, fails) ==
    IF fails THEN FallbackMarkup(m.code)
    ELSE [k |-> "highlighted", c |-> "", syntax |-> SyntaxFor(m.tag), code |-> m.code]

\* replace_all: the text before each match, its replacement, and at the end
\* the text after the last match.  `last` is the end of the previous match.
RECURSIVE ReplaceFrom(_, _, _, _, _)
ReplaceFrom(s, ms, n, last, failing) ==
    IF n > Len(ms) THEN Chs(SubSeq(s, last + 1, Len(s)))
    ELSE Chs(SubSeq(s, last + 1, ms[n].start - 1))
         \o <<RegionMarkup(ms[n], n \in failing)>>
         \o ReplaceFrom(s, ms, n + 1, ms[n].end, failing)

\* The fixed document shell around the transformed body.  The lightweight
\* markup transform (pulldown_cmark) is not interpreted: it takes the
\* substituted document and cannot fail.
Shell(body) == [doctype |-> "html", style |-> "fixed", body |-> body]

RenderFn(s, failing) ==
    LET ms == CodeBlockMatches(s)
        highlighted == ReplaceFrom(s, ms, 1, 0, failing)
    IN [state |-> "ok",
        captures |-> ms,
        highlighted |-> highlighted,
        html |-> Shell(highlighted)]

\* The whole function, the engine failing on any set of the matched regions.
RenderMarkdown ==
    /\ rendered.state = "called"
    /\ \E failing \in SUBSET (1..Len(CodeBlockMatches(md))) :
          /\ engineFails' = failing
          /\ rendered' = RenderFn(md, failing)
    /\ UNCHANGED <<md, extractVars, mainVars>>

\* The documents: up to MaxPieces pieces, each a fence or a single character.
DocPieces == {Fence, <<BT>>, <<"a">>, <<NL>>, <<"+">>}

InitRender ==
    /\ \E ps \in SeqsUpTo(DocPieces, MaxPieces) : md = Concat(ps)
    /\ engineFails = {}
    /\ rendered = [state |-> "called"]
    /\ IdleExtract
    /\ IdleMain

NextRender == RenderMarkdown

SpecRender == InitRender /\ [][NextRender]_vars

(***************************************************************************)
(* Properties of the highlighting renderer.                                *)
(***************************************************************************)
IsMarkup(item) == item.k # "ch"
IsChar(item) == item.k = "ch"

\* The markup items of a substituted document, in order.
MarkupOf(h) == SelectSeq(h, IsMarkup)

\* The characters of a substituted document that are not markup, in order.
TextOf(h) == LET cs == SelectSeq(h, IsChar) IN [i \in 1..Len(cs) |-> cs[i].c]

\* C7: render_markdown_with_highlighting returns a complete document and no
\* error, whatever the document: each matched region has one markup item; a
\* region without a tag or with a tag no syntax answers to is highlighted
\* with the plain-text syntax; a region the engine fails on is the literal
\* fallback markup of the same text.
C7_RenderNeverFails ==
    rendered.state # "called" =>
        /\ rendered.state = "ok"
        /\ rendered.html.doctype = "html"
        /\ rendered.html.body = rendered.highlighted
        /\ LET ms == rendered.captures
               mk == MarkupOf(rendered.highlighted)
           IN /\ Len(mk) = Len(ms)
              /\ \A n \in 1..Len(ms) :
                    /\ mk[n].code = ms[n].code
                    /\ n \in engineFails => mk[n].k = "fallback"
                    /\ n \notin engineFails =>
                          /\ mk[n].k = "highlighted"
                          /\ (~ms[n].tag.some \/ ms[n].tag.v # <<"a">>) =>
                                mk[n].syntax = PlainText

\* Two regions without a tag: the first is highlighted with the plain-text
\* syntax, the engine fails on the second, which is the fallback markup.
C7_Witness ==
    /\ rendered.state = "ok"
    /\ Len(rendered.captures) = 2
    /\ ~rendered.captures[1].tag.some
    /\ engineFails = {2}
    /\ MarkupOf(rendered.highlighted)[1].syntax = PlainText
    /\ MarkupOf(rendered.highlighted)[2] = FallbackMarkup(rendered.captures[2].code)

\* The opening pattern at i: a fence, word characters, a newline at j.
OpensAt(s, i, j) ==
    /\ IsFenceAt(s, i)
    /\ j >= i + 3 /\ j <= Len(s)
    /\ s[j] = NL
    /\ \A t \in (i + 3)..(j - 1) : s[t] \in WordChars

\* C8: every match starts with a fence, a possibly empty run of word
\* characters (the tag) and a newline, its content is all the text up to the
\* first following fence, so no fence starts inside the content; the matches
\* are found left to right and do not overlap; and wherever an opening fence
\* with an optional word tag and a newline is followed by a closing fence
\* and lies in no earlier match, a match starts.
C8_FencedRegionDetection ==
    rendered.state = "ok" =>
        LET ms == rendered.captures
        IN /\ \A n \in 1..Len(ms) :
                 LET m == ms[n]
                 IN /\ m.found
                    /\ OpensAt(md, m.start, m.codeFrom - 1)
                    /\ m.tag = (IF m.codeFrom - 1 > m.start + 3
                                THEN Some(SubSeq(md, m.start + 3, m.codeFrom - 2))
                                ELSE None)
                    /\ IsFenceAt(md, m.end - 2)
                    /\ m.end - 2 >= m.codeFrom
                    /\ m.code = SubSeq(md, m.codeFrom, m.end - 3)
                    /\ \A t \in m.codeFrom..(m.end - 3) : ~IsFenceAt(md, t)
           /\ \A n \in 1..(Len(ms) - 1) : ms[n].end < ms[n + 1].start
           /\ \A i \in 1..Len(md) :
                 ( /\ \E j \in (i + 3)..Len(md) :
                         /\ OpensAt(md, i, j)
                         /\ \E e \in (j + 1)..Len(md) : IsFenceAt(md, e)
                   /\ \A n \in 1..Len(ms) : ~(ms[n].start < i /\ i <= ms[n].end) )
                 => \E n \in 1..Len(ms) : ms[n].start = i

\* A fence with the tag "a", a newline, the content "a\n", a closing fence:
\* one region, whose content spans the newline.
C8_Witness ==
    /\ md = Fence \o <<"a", NL, "a", NL>> \o Fence
    /\ rendered.state = "ok"
    /\ Len(rendered.captures) = 1
    /\ rendered.captures[1].tag = Some(<<"a">>)
    /\ rendered.captures[1].code = <<"a", NL>>

\* The fenced code regions of a document when the tag of an opening fence
\* may hold any character but a newline or a backtick.
InfoChars == Chars \ {NL, BT}

FencedRegions(s) == FindIterWith(s, 1, InfoChars)

\* The characters of s outside the regions rs from region n on, in order.
RECURSIVE OutsideFrom(_, _, _, _)
OutsideFrom(s, rs, n, last) ==
    IF n > Len(rs) THEN SubSeq(s, last + 1, Len(s))
    ELSE SubSeq(s, last + 1, rs[n].start - 1) \o OutsideFrom(s, rs, n + 1, rs[n].end)

\* C9: the substitution replaces each fenced code region by its markup and
\* leaves every character outside the fenced code regions unchanged and in
\* order, also when an opening fence carries a tag with non-word characters.
C9_OutsideRegionsUnchanged ==
    rendered.state = "ok" =>
        LET rs == FencedRegions(md)
            mk == MarkupOf(rendered.highlighted)
        IN /\ Len(mk) = Len(rs)
           /\ \A n \in 1..Len(rs) : n <= Len(mk) => mk[n].code = rs[n].code
           /\ TextOf(rendered.highlighted) = OutsideFrom(md, rs, 1, 0)

(***************************************************************************)
(* main and render_pdf                                                     *)
(*                                                                         *)
(* A path is a stem and an extension ("" when it has none); abs says       *)
(* whether it has been joined to the canonical working directory.  Files   *)
(* are told apart by stem and extension.                                   *)
(***************************************************************************)
Path(stem, ext) == [abs |-> FALSE, stem |-> stem, ext |-> ext]

\* Path::with_extension
WithExtension(p, ext) == [p EXCEPT !.ext = ext]

\* canonicalize(current_dir()).join(p)
JoinCwd(p) == [p EXCEPT !.abs = TRUE]

\* The file a path names.
FileOf(p) == <<p.stem, p.ext>>

Stems == {"in", "out"}
Exts == {"", "jsonl", "pdf", "html"}
Files == Stems \X Exts

Absent == [kind |-> "absent", data |-> <<>>]

\* cli.output.unwrap_or_else(|| cli.input.with_extension("pdf"))
pdf_file ==
    IF cli.output.some THEN cli.output.v ELSE WithExtension(cli.input, "pdf")

\* pdf_file.with_extension("html")
html_file == WithExtension(pdf_file, "html")

abs_html_file == JoinCwd(html_file)

\* The exit status of Chrome is not looked at.
RenderPdfIgnoresStatus(launched, success) ==
    IF ~launched THEN [ok |-> FALSE, error |-> "IoError"] ELSE [ok |-> TRUE]

\* render_pdf's result: `.status()?`, then bail! unless status.success().
RenderPdfResult(launched, success) ==
    IF ~launched THEN [ok |-> FALSE, error |-> "IoError"]
    ELSE IF ~success THEN [ok |-> FALSE, error |-> "Chrome failed to generate PDF"]
    ELSE [ok |-> TRUE]

Ran(stage, ok) == [stage |-> stage, ok |-> ok]

\* `extract_conversation_markdown(&cli.input)?`: File::open fails on a
\* missing file; otherwise the lines of the file are extracted.
MainExtract ==
    /\ pc = "extract"
    /\ LET f == fs[FileOf(cli.input)]
           r == ExtractFn(f.data)
       IN IF f.kind = "absent" \/ r.state = "err"
          THEN /\ pc' = "failed"
               /\ ran' = Append(ran, Ran("extract", FALSE))
               /\ UNCHANGED markdown
          ELSE /\ pc' = "render"
               /\ ran' = Append(ran, Ran("extract", TRUE))
               /\ markdown' = r.doc
    /\ UNCHANGED <<cli, fs, html_content, extractVars, renderVars>>

\* `render_markdown_with_highlighting(&markdown)?`
MainRender ==
    /\ pc = "render"
    /\ \E failing \in SUBSET (1..Len(CodeBlockMatches(markdown))) :
          LET r == RenderFn(markdown, failing)
          IN IF r.state = "ok"
             THEN /\ pc' = "cwd"
                  /\ ran' = Append(ran, Ran("render", TRUE))
                  /\ html_content' = r.html
             ELSE /\ pc' = "failed"
                  /\ ran' = Append(ran, Ran("render", FALSE))
                  /\ UNCHANGED html_content
    /\ UNCHANGED <<cli, fs, markdown, extractVars, renderVars>>

\* `std::fs::canonicalize(std::env::current_dir()?)?`: it may fail.
MainCanonicalize ==
    /\ pc = "cwd"
    /\ \E ok \in BOOLEAN : pc' = IF ok THEN "write" ELSE "failed"
    /\ UNCHANGED <<cli, fs, markdown, html_content, ran, extractVars, renderVars>>

\* `std::fs::write(&html_file, html_content)?`: it may fail.
MainWriteHtml ==
    /\ pc = "write"
    /\ \E ok \in BOOLEAN :
          IF ok
          THEN /\ fs' = [fs EXCEPT ![FileOf(html_file)] =
                            [kind |-> "html", data |-> html_content]]
               /\ pc' = "pdf"
               /\ ran' = Append(ran, Ran("write", TRUE))
          ELSE /\ pc' = "failed"
               /\ ran' = Append(ran, Ran("write", FALSE))
               /\ UNCHANGED fs
    /\ UNCHANGED <<cli, markdown, html_content, extractVars, renderVars>>

\* `render_pdf(&abs_html_file, &pdf_file)?`: Chrome does not launch, or exits
\* non-zero, or prints the document it loaded to the --print-to-pdf path.
MainRenderPdf ==
    /\ pc = "pdf"
    /\ \E launched \in BOOLEAN, success \in BOOLEAN :
          /\ (~launched => ~success)
          /\ fs' = IF launched /\ success
                   THEN [fs EXCEPT ![FileOf(pdf_file)] =
                            [kind |-> "pdf", data |-> fs[FileOf(abs_html_file)].data]]
                   ELSE fs
          /\ pc' = IF RenderPdfResult(launched, success).ok THEN "done" ELSE "failed"
          /\ ran' = Append(ran, Ran("pdf", launched /\ success))
    /\ UNCHANGED <<cli, markdown, html_content, extractVars, renderVars>>

\* A message whose text holds a fenced region.
CodeMessage == JMessage(JStr(bot), JStr(Fence \o <<NL, "x">> \o Fence))

\* The input files of the runs: empty, two records, a record with a fenced
\* region, and a file whose second line is empty.
InputFiles ==
    { <<>>,
      <<JRoot(JStr("user"), StringMessage), JRoot(JStr("assistant"), BlocksMessage)>>,
      <<JRoot(JStr("assistant"), CodeMessage)>>,
      <<JRoot(JStr("user"), StringMessage), EmptyLine>> }

InitMain ==
    /\ \E input \in {Path("in", "jsonl"), Path("in", "html")},
          out \in {None, Some(Path("out", "pdf")), Some(Path("out", "html")),
                   Some(Path("out", ""))} :
          cli = [input |-> input, output |-> out]
    /\ \E content \in {Absent} \cup {[kind |-> "jsonl", data |-> ls] : ls \in InputFiles} :
          fs = [f \in Files |-> IF f = FileOf(cli.input) THEN content ELSE Absent]
    /\ pc = "extract"
    /\ markdown = <<>>
    /\ html_content = Shell(<<>>)
    /\ ran = <<>>
    /\ IdleExtract
    /\ IdleRender

NextMain ==
    MainExtract \/ MainRender \/ MainCanonicalize \/ MainWriteHtml \/ MainRenderPdf

SpecMain == InitMain /\ [][NextMain]_vars

(***************************************************************************)
(* Properties of main.                                                     *)
(***************************************************************************)
Stages == <<"extract", "render", "write", "pdf">>

\* C5: the stages run in the order extraction, highlighting render, write
\* of the intermediate file, external renderer; a stage that fails is the
\* last one run and the run has failed; after a failed extraction no file
\* has been written; the run succeeds only with all four stages run and
\* successful, the external renderer last.
C5_StagesInOrderFirstErrorWins ==
    /\ Len(ran) <= Len(Stages)
    /\ \A i \in 1..Len(ran) : ran[i].stage = Stages[i]
    /\ \A i \in 1..Len(ran) : ~ran[i].ok => (i = Len(ran) /\ pc = "failed")
    /\ (ran # <<>> /\ ~ran[1].ok) => \A f \in Files : fs[f].kind \notin {"html", "pdf"}
    /\ pc = "done" =>
          /\ Len(ran) = Len(Stages)
          /\ \A i \in 1..Len(ran) : ran[i].ok
          /\ fs[FileOf(pdf_file)].kind = "pdf"

\* The extraction has failed on a file that holds a malformed line: the run
\* has ended with only that stage run.
C5_Witness ==
    /\ pc = "failed"
    /\ fs[FileOf(cli.input)].kind = "jsonl"
    /\ ~AllParse(fs[FileOf(cli.input)].data)
    /\ ran = <<Ran("extract", FALSE)>>

\* C6: once the intermediate display-markup file has been written, it is
\* there with the written content in every later state of the run, whether
\* the external renderer fails to launch, exits non-zero or succeeds.
C6_IntermediateFileKept ==
    (Len(ran) >= 3 /\ ran[3].ok) =>
        fs[FileOf(html_file)] = [kind |-> "html", data |-> html_content]

=============================================================================
